---------------------------- MODULE Spec2Model ----------------------------
(***************************************************************************)
(* Model of pennylane.interfaces.tfe.TFEQNode: the wrapper that turns a    *)
(* QNode (the evaluator) into a TensorFlow-eager function with a custom    *)
(* gradient.  _TFEQNode is the forward call; the closure grad it returns   *)
(* is the backward call.                                                   *)
(*                                                                         *)
(* Values.  Every Python value the wrapper touches is a record             *)
(*   [kind, ref, shape, data]                                              *)
(*   kind  "tensor"  a tf.Tensor / tf.Variable (immutable for the host)    *)
(*         "ndarray" a NumPy array                                         *)
(*         "list"    a Python list of numbers                              *)
(*         "number"  a Python float                                        *)
(*         "ref"     a reference to a host-owned mutable object heap[ref]  *)
(*   ref   the heap address of a host-owned object, 0 for a private value  *)
(*   shape the array's shape (<<>> for rank 0 and for numbers)             *)
(*   data  the elements in row-major (C) order                             *)
(* Python passes objects by reference: a host ndarray or list given to the *)
(* wrapper is the record [kind |-> "ref", ref |-> o]; what it holds is     *)
(* heap[o] at the time it is read.                                         *)
(***************************************************************************)
EXTENDS Integers, Sequences, FiniteSets, TLC

VARIABLES
    heap,        \* host-owned mutable objects (NumPy arrays, lists), by address
    calls,       \* one record per forward call of the wrapped callable
    last,        \* what the most recent backward-closure invocation did
    evalCalls,   \* number of calls made to qnode( *args)
    jacCalls,    \* number of calls made to qnode.jacobian(args)
    bwdStarted,  \* number of backward-closure invocations started
    probeIn,     \* input of the pure function under check
    probeOut     \* its output

vars == <<heap, calls, last, evalCalls, jacCalls, bwdStarted, probeIn, probeOut>>

----------------------------------------------------------------------------
(* Bounds *)

MaxArgs == 2      \* positional arguments of one forward call
MaxSize == 2      \* elements of one array argument
MaxRows == 2      \* rows of a Jacobian / length of an upstream gradient
MaxJCols == 2     \* columns of a Jacobian in the numeric check of the VJP
MaxCalls == 2     \* forward calls in one run
MaxBackward == 2  \* backward-closure invocations in one run

\* element values of arguments
Vals == {1, 2}
\* element values of upstream gradients and Jacobians in the numeric check
GradVals == {-1, 0, 2}

----------------------------------------------------------------------------
(* Values *)

None == [kind |-> "none", ref |-> 0, shape |-> <<>>, data |-> <<>>]

RECURSIVE Prod(_)
Prod(shape) ==
    IF shape = <<>> THEN 1 ELSE Head(shape) * Prod(Tail(shape))

Fill(n, v) == [i \in 1..n |-> v]

Shapes ==
    {<<>>} \cup {<<n>> : n \in 1..MaxSize}
           \cup {<<r, c>> : r \in 1..MaxSize, c \in 1..MaxSize}

ArrayShapes == {s \in Shapes : Prod(s) <= MaxSize}

Tensor(shape, v) ==
    [kind |-> "tensor", ref |-> 0, shape |-> shape, data |-> Fill(Prod(shape), v)]

Number(v) == [kind |-> "number", ref |-> 0, shape |-> <<>>, data |-> <<v>>]

Ref(o) == [kind |-> "ref", ref |-> o, shape |-> <<>>, data |-> <<>>]

HostObject(kind, o, shape, v) ==
    [kind |-> kind, ref |-> o, shape |-> shape, data |-> Fill(Prod(shape), v)]

\* the object a value denotes: a reference is followed into the heap
View(a, h) == IF a.kind = "ref" THEN h[a.ref] ELSE a

ViewAll(args, h) == [i \in 1..Len(args) |-> View(args[i], h)]

----------------------------------------------------------------------------
(* ArgumentMarshaller: the two list comprehensions of _TFEQNode *)

\* i.numpy(): a NumPy array holding the tensor's value, detached
Numpy(i) == [kind |-> "ndarray", ref |-> 0, shape |-> i.shape, data |-> i.data]

\* i.tolist() of a zero-dimensional array: a Python float
ToList(v) == [kind |-> "number", ref |-> 0, shape |-> <<>>, data |-> v.data]

\* i.numpy() if isinstance(i, (tf.Variable, tf.Tensor)) else i
Detach(i) == IF i.kind = "tensor" THEN Numpy(i) ELSE i

\* Faulty variant: the second comprehension left out: nothing is collapsed
CollapseNever(a, h) == a

\* i.tolist() if (isinstance(i, np.ndarray) and not i.shape) else i
Collapse(a, h) ==
    IF View(a, h).kind = "ndarray" /\ View(a, h).shape = <<>>
    THEN ToList(View(a, h))
    ELSE a

Marshal(input, h) ==
    [i \in 1..Len(input) |-> Collapse(Detach(input[i]), h)]


----------------------------------------------------------------------------
(* ForwardExecutor: res = qnode( *args), then the cast to a NumPy array *)

\* np.array(res) unless res is already an ndarray
Normalize(res) ==
    IF res.kind = "ndarray"
    THEN res
    ELSE [kind |-> "ndarray", ref |-> 0, shape |-> res.shape, data |-> res.data]

Returns(res) == [raises |-> FALSE, err |-> "", res |-> res]

Raises(err) == [raises |-> TRUE, err |-> err, res |-> None]

\* Faulty variant: an evaluator failure is caught and a zero result returned
ForwardOutcomeRecovering(out) ==
    [status |-> "returned", err |-> "",
     res |-> IF out.raises THEN Normalize(Number(0)) ELSE Normalize(out.res),
     closure |-> TRUE]

\* What _TFEQNode hands back to the host for an outcome of qnode( *args): the
\* (res, grad) pair, or the evaluator's exception, which no handler catches.
ForwardOutcome(out) ==
    IF out.raises
    THEN [status |-> "raised", err |-> out.err, res |-> None, closure |-> FALSE]
    ELSE [status |-> "returned", err |-> "", res |-> Normalize(out.res),
          closure |-> TRUE]

\* calls made to qnode( *args) once one more forward call has run: one more
EvalCallsAfterForward(n) == n + 1

\* Faulty variant: the Jacobian is computed eagerly, in the forward call
JacCallsEager(n) == n + 1

\* calls made to qnode.jacobian once one more forward call has run: no more
JacCallsAfterForward(n) == n

----------------------------------------------------------------------------
(* VJPComputer: the product in grad.  grad_output_np is [shape, data]; the  *)
(* Jacobian is a sequence of rows.                                         *)

RECURSIVE SumSeq(_)
SumSeq(s) == IF s = <<>> THEN 0 ELSE Head(s) + SumSeq(Tail(s))

RECURSIVE Flat(_)
\* temp.flat of a two-dimensional array: its rows one after the other
Flat(rows) == IF rows = <<>> THEN <<>> ELSE Head(rows) \o Flat(Tail(rows))

NumRows(jac) == Len(jac)

NumCols(jac) == Len(jac[1])

\* grad_output_np * jacobian with a zero-dimensional grad_output_np: NumPy
\* broadcasts the scalar over every entry of the Jacobian
ScalarTimes(v, jac) ==
    [i \in 1..NumRows(jac) |-> [j \in 1..NumCols(jac) |-> v * jac[i][j]]]

\* Faulty variant: the contraction keeps the first output component only
VecMatFirstRow(gd, jac) == [j \in 1..NumCols(jac) |-> gd[1] * jac[1][j]]

\* grad_output_np.T @ jacobian with a one-dimensional grad_output_np (.T of
\* a vector is the vector)
VecMat(gd, jac) ==
    [j \in 1..NumCols(jac) |->
        SumSeq([i \in 1..NumRows(jac) |-> gd[i] * jac[i][j]])]

\* Faulty variant: the scalar branch returns the Jacobian, not scaled by grad_output
VJPUnscaled(g, jac) ==
    IF g.shape = <<>>
    THEN [ok |-> TRUE, flat |-> Flat(jac)]
    ELSE IF Len(g.data) # NumRows(jac)
         THEN [ok |-> FALSE, flat |-> <<>>]
         ELSE [ok |-> TRUE, flat |-> VecMat(g.data, jac)]

VJPComputer(g, jac) ==
    IF g.shape = <<>>
    THEN [ok |-> TRUE, flat |-> Flat(ScalarTimes(g.data[1], jac))]
    ELSE IF Len(g.data) # NumRows(jac)
         THEN [ok |-> FALSE, flat |-> <<>>]   \* matmul: ValueError
         ELSE [ok |-> TRUE, flat |-> VecMat(g.data, jac)]

----------------------------------------------------------------------------
(* Unflattener: pennylane.utils.unflatten(flat, model) *)

SizeOf(v) == IF v.kind = "number" THEN 1 ELSE Prod(v.shape)

TotalSize(models) == SumSeq([i \in 1..Len(models) |-> SizeOf(models[i])])

Offset(models, i) == TotalSize(SubSeq(models, 1, i - 1))

\* the slice of the flat vector that belongs to one model, in its shape
Restore(slice, model) ==
    [kind |-> model.kind, ref |-> 0, shape |-> model.shape, data |-> slice]

Unflatten(flat, models) ==
    IF Len(flat) # TotalSize(models)
    THEN [ok |-> FALSE, val |-> <<>>]
    ELSE [ok |-> TRUE,
          val |-> [i \in 1..Len(models) |->
                    Restore(SubSeq(flat, Offset(models, i) + 1,
                                   Offset(models, i) + SizeOf(models[i])),
                            models[i])]]

----------------------------------------------------------------------------
(* The backward closure grad(grad_output) *)

JacReturns(jac) == [raises |-> FALSE, jac |-> jac]

JacRaises == [raises |-> TRUE, jac |-> <<>>]

\* Faulty variant: args kept in one place shared by all calls: the latest call's
ClosureArgsShared(call) == calls[Len(calls)].args

\* what qnode.jacobian and unflatten are handed: the closure's variable args
ClosureArgs(call) == call.args

Reverse(s) == [i \in 1..Len(s) |-> s[Len(s) + 1 - i]]

\* Faulty variant: the flat vector is cut to the arguments' size before unflatten
GradTruncating(args, h, g, jout) ==
    IF jout.raises
    THEN [outcome |-> "JacobianError", flat |-> <<>>, grad |-> <<>>]
    ELSE LET temp == VJPComputer(g, jout.jac) IN
         IF ~temp.ok
         THEN [outcome |-> "ShapeMismatchError", flat |-> <<>>, grad |-> <<>>]
         ELSE LET n == TotalSize(ViewAll(args, h))
                  u == Unflatten(IF Len(temp.flat) > n
                                 THEN SubSeq(temp.flat, 1, n) ELSE temp.flat,
                                 ViewAll(args, h))
              IN
              IF ~u.ok
              THEN [outcome |-> "ReconstructionError", flat |-> temp.flat,
                    grad |-> <<>>]
              ELSE [outcome |-> "ok", flat |-> temp.flat, grad |-> u.val]

\* Faulty variant: the flat vector is unflattened against the arguments in reverse
GradReversed(args, h, g, jout) ==
    IF jout.raises
    THEN [outcome |-> "JacobianError", flat |-> <<>>, grad |-> <<>>]
    ELSE LET temp == VJPComputer(g, jout.jac) IN
         IF ~temp.ok
         THEN [outcome |-> "ShapeMismatchError", flat |-> <<>>, grad |-> <<>>]
         ELSE LET u == Unflatten(temp.flat, Reverse(ViewAll(args, h))) IN
              IF ~u.ok
              THEN [outcome |-> "ReconstructionError", flat |-> temp.flat,
                    grad |-> <<>>]
              ELSE [outcome |-> "ok", flat |-> temp.flat, grad |-> u.val]

Grad(args, h, g, jout) ==
    IF jout.raises
    THEN [outcome |-> "JacobianError", flat |-> <<>>, grad |-> <<>>]
    ELSE LET temp == VJPComputer(g, jout.jac) IN
         IF ~temp.ok
         THEN [outcome |-> "ShapeMismatchError", flat |-> <<>>, grad |-> <<>>]
         ELSE LET u == Unflatten(temp.flat, ViewAll(args, h)) IN
              IF ~u.ok
              THEN [outcome |-> "ReconstructionError", flat |-> temp.flat,
                    grad |-> <<>>]
              ELSE [outcome |-> "ok", flat |-> temp.flat, grad |-> u.val]

\* calls made to qnode.jacobian once one more backward invocation has run
JacCallsAfterBackward(n) == n + 1

\* calls made to qnode( *args) once one more backward invocation has run
EvalCallsAfterBackward(n) == n

----------------------------------------------------------------------------
(* State after construction: TFEQNode(qnode) has returned the wrapped       *)
(* callable; nothing has been called yet.                                  *)

NoGrad == [shape |-> <<>>, data |-> <<>>]

NoBackward ==
    [op |-> "none", call |-> 0, g |-> NoGrad, jout |-> JacRaises,
     jacArgs |-> <<>>, jacSeen |-> <<>>, outcome |-> "", flat |-> <<>>,
     grad |-> <<>>]

Idle == [kind |-> "idle"]

InitWith(h) ==
    /\ heap = h
    /\ calls = <<>>
    /\ last = NoBackward
    /\ evalCalls = 0
    /\ jacCalls = 0
    /\ bwdStarted = 0
    /\ probeIn = Idle
    /\ probeOut = Idle

----------------------------------------------------------------------------
(* Operations *)

\* The host calls the wrapped callable: _TFEQNode( *input_).  out is what
\* qnode( *args) does on this call.
Forward(input, out) ==
    /\ Len(calls) < MaxCalls
    /\ LET args == Marshal(input, heap) IN
       calls' = Append(calls,
                  [input |-> input, args |-> args,
                   evalSeen |-> ViewAll(args, heap), evalOut |-> out,
                   fwd |-> ForwardOutcome(out)])
    /\ evalCalls' = EvalCallsAfterForward(evalCalls)
    /\ jacCalls' = JacCallsAfterForward(jacCalls)
    /\ UNCHANGED <<heap, last, bwdStarted, probeIn, probeOut>>

\* The host's backward pass invokes the closure returned by forward call k:
\* grad(grad_output).  jout is what qnode.jacobian(args) does on this call.
Backward(k, g, jout) ==
    /\ k \in 1..Len(calls)
    /\ calls[k].fwd.closure
    /\ bwdStarted < MaxBackward
    /\ bwdStarted' = bwdStarted + 1
    /\ jacCalls' = JacCallsAfterBackward(jacCalls)
    /\ evalCalls' = EvalCallsAfterBackward(evalCalls)
    /\ LET args == ClosureArgs(calls[k])
           r == Grad(args, heap, g, jout)
       IN  last' = [op |-> "backward", call |-> k, g |-> g, jout |-> jout,
                    jacArgs |-> args, jacSeen |-> ViewAll(args, heap),
                    outcome |-> r.outcome, flat |-> r.flat, grad |-> r.grad]
    /\ UNCHANGED <<heap, calls, probeIn, probeOut>>

\* The host writes element i of one of its own arrays or lists in place.
HostMutate(o, i, v) ==
    /\ o \in DOMAIN heap
    /\ i \in 1..Len(heap[o].data)
    /\ heap[o].data[i] # v
    /\ heap' = [heap EXCEPT ![o].data[i] = v]
    /\ UNCHANGED <<calls, last, evalCalls, jacCalls, bwdStarted, probeIn,
                   probeOut>>

----------------------------------------------------------------------------
(* Inputs *)

Tuples(S, n) == UNION {[1..k -> S] : k \in 1..n}

Scalar(v) == [shape |-> <<>>, data |-> <<v>>]

Vector(k, v) == [shape |-> <<k>>, data |-> Fill(k, v)]

\* a Jacobian of m rows and n columns whose entries are all different
IndexJac(m, n) == [i \in 1..m |-> [j \in 1..n |-> (i - 1) * n + j]]

\* Interleaved calls: a host with a plain one-dimensional array, which it may
\* write between calls, and which it passes alone or after a scalar tensor.
BridgeHeap == (1 :> HostObject("ndarray", 1, <<1>>, 1))

BridgeInputs ==
    { <<Ref(1)>>,
      <<Tensor(<<>>, 2), Ref(1)>>,
      <<Tensor(<<2>>, 1)>> }

BridgeEvalOutcomes == {Returns(Number(1)), Raises("DeviceError")}

BridgeGrads == {Scalar(1)}

\* the Jacobian of a scalar result: one row, one column per argument element
BridgeJacOutcomes(call) ==
    {JacReturns(IndexJac(1, TotalSize(call.evalSeen))), JacRaises}

Init == InitWith(BridgeHeap)

Next ==
    \/ \E input \in BridgeInputs, out \in BridgeEvalOutcomes :
          Forward(input, out)
    \/ \E k \in 1..Len(calls), g \in BridgeGrads :
          \E jout \in BridgeJacOutcomes(calls[k]) : Backward(k, g, jout)
    \/ \E o \in DOMAIN heap :
          \E i \in 1..Len(heap[o].data), v \in Vals : HostMutate(o, i, v)

Spec == Init /\ [][Next]_vars

----------------------------------------------------------------------------
(* One forward call and its backward closure, over every argument shape:   *)
(* the host owns one plain array or list; the Jacobian the evaluator       *)
(* returns and the upstream gradient have any shape within the bounds.     *)

CallHeaps ==
    {(1 :> HostObject("ndarray", 1, s, 1)) : s \in {t \in ArrayShapes : Len(t) < 2}}
        \cup {(1 :> HostObject("list", 1, <<n>>, 1)) : n \in 1..MaxSize}

CallElems == {Tensor(s, 1) : s \in ArrayShapes} \cup {Number(1), Ref(1)}

CallInputs == Tuples(CallElems, MaxArgs)

CallEvalOutcomes == {Returns(Number(1)), Raises("DeviceError")}

CallGrads == {Scalar(1)} \cup {Vector(k, 1) : k \in 1..MaxRows}

\* Jacobians of up to one column more than the call's arguments have elements
CallJacOutcomes(call) ==
    {JacReturns(IndexJac(m, n)) :
        m \in 1..MaxRows, n \in 1..(TotalSize(call.evalSeen) + 1)}
        \cup {JacRaises}

InitCall == \E h \in CallHeaps : InitWith(h)

NextCall ==
    \/ /\ calls = <<>>
       /\ \E input \in CallInputs, out \in CallEvalOutcomes : Forward(input, out)
    \/ /\ bwdStarted = 0
       /\ calls # <<>>
       /\ calls[1].fwd.closure
       /\ \E g \in CallGrads, jout \in CallJacOutcomes(calls[1]) :
             Backward(1, g, jout)

SpecCall == InitCall /\ [][NextCall]_vars

----------------------------------------------------------------------------
(* ArgumentMarshaller alone, over every kind, shape and value of input *)

MarshalHeaps ==
    {(1 :> HostObject("ndarray", 1, s, v)) : s \in ArrayShapes, v \in Vals}
        \cup {(1 :> HostObject("list", 1, <<n>>, v)) : n \in 1..MaxSize, v \in Vals}

MarshalElems ==
    {Tensor(s, v) : s \in ArrayShapes, v \in Vals}
        \cup {Number(v) : v \in Vals} \cup {Ref(1)}

InitMarshal ==
    /\ \E h \in MarshalHeaps : heap = h
    /\ \E input \in Tuples(MarshalElems, MaxArgs) :
          probeIn = [kind |-> "input", input |-> input]
    /\ calls = <<>>
    /\ last = NoBackward
    /\ evalCalls = 0
    /\ jacCalls = 0
    /\ bwdStarted = 0
    /\ probeOut = Idle

ApplyMarshal ==
    /\ probeOut = Idle
    /\ probeOut' = [kind |-> "args", args |-> Marshal(probeIn.input, heap)]
    /\ UNCHANGED <<heap, calls, last, evalCalls, jacCalls, bwdStarted, probeIn>>

SpecMarshal == InitMarshal /\ [][ApplyMarshal]_vars

----------------------------------------------------------------------------
(* VJPComputer alone, over every upstream gradient and Jacobian *)

NumGrads ==
    {[shape |-> <<>>, data |-> <<v>>] : v \in GradVals}
        \cup UNION {{[shape |-> <<k>>, data |-> d] : d \in [1..k -> GradVals]} :
                    k \in 1..MaxRows}

NumJacs ==
    UNION {[1..m -> [1..n -> GradVals]] : m \in 1..MaxRows, n \in 1..MaxJCols}

InitVJP ==
    /\ \E g \in NumGrads, jac \in NumJacs :
          probeIn = [kind |-> "vjp", g |-> g, jac |-> jac]
    /\ heap = BridgeHeap
    /\ calls = <<>>
    /\ last = NoBackward
    /\ evalCalls = 0
    /\ jacCalls = 0
    /\ bwdStarted = 0
    /\ probeOut = Idle

ApplyVJP ==
    /\ probeOut = Idle
    /\ probeOut' = [kind |-> "temp", temp |-> VJPComputer(probeIn.g, probeIn.jac)]
    /\ UNCHANGED <<heap, calls, last, evalCalls, jacCalls, bwdStarted, probeIn>>

SpecVJP == InitVJP /\ [][ApplyVJP]_vars

----------------------------------------------------------------------------
(* Properties *)

RanBackward == last.op = "backward"

LastCall == calls[last.call]

\* number of elements of an upstream gradient
GradSize(g) == IF g.shape = <<>> THEN 1 ELSE Len(g.data)

\* number of elements of positional argument i of a forward call
InputSize(call, i) == SizeOf(View(call.input[i], heap))

\* number of elements of the positional arguments before argument i
InputOffset(call, i) == SumSeq([j \in 1..(i - 1) |-> InputSize(call, j)])

InputTotal(call) == InputOffset(call, Len(call.input) + 1)

\* C1: in every reachable state the number of calls made to qnode.jacobian
\* equals the number of backward-closure invocations started: forward calls
\* add none, each backward invocation adds exactly one.
C1_JacobianCallsEqualBackwards == jacCalls = bwdStarted

\* C1 witness: two forward calls, the closure of the first invoked twice
\* (the second forward call raised and has no closure).
C1_Witness ==
    /\ Len(calls) = 2
    /\ calls[1].fwd.closure
    /\ ~calls[2].fwd.closure
    /\ bwdStarted = 2
    /\ jacCalls = 2

\* C2: for a zero-dimensional upstream gradient g and a Jacobian of exactly
\* one row J, the flat input gradient is g * J, entry by entry.
C2_ScalarVJP ==
    (/\ probeOut # Idle
     /\ probeIn.g.shape = <<>>
     /\ Len(probeIn.jac) = 1)
    => /\ probeOut.temp.ok
       /\ probeOut.temp.flat =
            [j \in 1..Len(probeIn.jac[1]) |-> probeIn.g.data[1] * probeIn.jac[1][j]]

\* C2 witness: g = 2 against the row (-1, 2) gives (-2, 4).
C2_Witness ==
    /\ probeOut # Idle
    /\ probeIn.g = Scalar(2)
    /\ probeIn.jac = << <<-1, 2>> >>
    /\ probeOut.temp.flat = <<-2, 4>>

RECURSIVE ColumnSum(_, _, _, _)
\* g[1] * J[1][j] + ... + g[i] * J[i][j]
ColumnSum(gd, jac, j, i) ==
    IF i = 0 THEN 0 ELSE ColumnSum(gd, jac, j, i - 1) + gd[i] * jac[i][j]

\* C3: for a one-dimensional upstream gradient g of size m and a Jacobian of
\* shape [m, n], the flat input gradient has n entries and entry j is the sum
\* over i of g[i] * J[i][j].
C3_VectorVJP ==
    (/\ probeOut # Idle
     /\ Len(probeIn.g.shape) = 1
     /\ Len(probeIn.g.data) = Len(probeIn.jac))
    => /\ probeOut.temp.ok
       /\ Len(probeOut.temp.flat) = Len(probeIn.jac[1])
       /\ \A j \in 1..Len(probeIn.jac[1]) :
             probeOut.temp.flat[j] =
                ColumnSum(probeIn.g.data, probeIn.jac, j, Len(probeIn.jac))

\* C3 witness: g = (2, -1) against ((2, 0), (-1, 2)) gives (5, -2).
C3_Witness ==
    /\ probeOut # Idle
    /\ probeIn.g = [shape |-> <<2>>, data |-> <<2, -1>>]
    /\ probeIn.jac = << <<2, 0>>, <<-1, 2>> >>
    /\ probeOut.temp.flat = <<5, -2>>

\* C4: whenever the backward closure runs with an upstream gradient of size k
\* against a Jacobian of m rows, k # m (a zero-dimensional gradient has size
\* 1), it ends in an error and returns no gradient tuple; it never produces a
\* gradient by broadcasting.  (Stated whatever name the error carries.)
C4_MismatchNeverYieldsGradient ==
    (/\ RanBackward
     /\ ~last.jout.raises
     /\ GradSize(last.g) # NumRows(last.jout.jac))
    => /\ last.outcome \in {"ShapeMismatchError", "ReconstructionError"}
       /\ last.grad = <<>>

\* C5: whenever the flat vector of the VJP step has a length other than the
\* number of elements of all arguments, the backward closure ends in a
\* ReconstructionError and returns no gradient tuple.
C5_WrongLengthIsReconstructionError ==
    (/\ RanBackward
     /\ ~last.jout.raises
     /\ last.outcome # "ShapeMismatchError"
     /\ Len(last.flat) # InputTotal(LastCall))
    => /\ last.outcome = "ReconstructionError"
       /\ last.grad = <<>>

\* C5 witness: two arguments and a flat vector longer than their elements.
C5_Witness ==
    /\ RanBackward
    /\ Len(LastCall.input) = 2
    /\ Len(last.flat) > InputTotal(LastCall)
    /\ last.outcome = "ReconstructionError"

\* C6: a successful backward invocation returns one entry per positional
\* argument of the forward call, in order; entry i has the shape of argument
\* i and holds the slice of the flat vector that starts after the elements of
\* arguments 1..i-1.
C6_GradientMirrorsArguments ==
    (RanBackward /\ last.outcome = "ok")
    => /\ Len(last.grad) = Len(LastCall.input)
       /\ \A i \in 1..Len(LastCall.input) :
             /\ last.grad[i].shape = View(LastCall.input[i], heap).shape
             /\ last.grad[i].data =
                  SubSeq(last.flat, InputOffset(LastCall, i) + 1,
                         InputOffset(LastCall, i) + InputSize(LastCall, i))

\* C6 witness: a two-element tensor followed by the host's own array; the
\* second entry of the gradient starts at the third element of the flat vector.
C6_Witness ==
    /\ RanBackward
    /\ last.outcome = "ok"
    /\ LastCall.input = <<Tensor(<<2>>, 1), Ref(1)>>
    /\ heap[1].shape = <<2>>
    /\ last.grad[2].data = <<last.flat[3], last.flat[4]>>

\* the value of a tensor, detached, as a plain scalar when zero-dimensional
DetachedValue(t) ==
    IF t.shape = <<>>
    THEN [kind |-> "number", ref |-> 0, shape |-> <<>>, data |-> t.data]
    ELSE [kind |-> "ndarray", ref |-> 0, shape |-> t.shape, data |-> t.data]

\* C7 as claimed: the marshalled list has the input's length and order; a
\* tensor is replaced by its detached value (a plain scalar when
\* zero-dimensional); every other input, plain arrays of rank 0 included, is
\* passed as it is.
C7_NonTensorsPassUnchanged ==
    probeOut # Idle
    => /\ Len(probeOut.args) = Len(probeIn.input)
       /\ \A i \in 1..Len(probeIn.input) :
             probeOut.args[i] =
                IF probeIn.input[i].kind = "tensor"
                THEN DetachedValue(probeIn.input[i])
                ELSE probeIn.input[i]

\* C7 amended: as C7, except that a plain zero-dimensional array is replaced
\* by a plain scalar of the same value, like a zero-dimensional tensor.
C7_MarshalledArguments ==
    probeOut # Idle
    => /\ Len(probeOut.args) = Len(probeIn.input)
       /\ \A i \in 1..Len(probeIn.input) :
             probeOut.args[i] =
                IF probeIn.input[i].kind = "tensor"
                THEN DetachedValue(probeIn.input[i])
                ELSE IF /\ probeIn.input[i].kind = "ref"
                        /\ heap[probeIn.input[i].ref].kind = "ndarray"
                        /\ heap[probeIn.input[i].ref].shape = <<>>
                     THEN Number(heap[probeIn.input[i].ref].data[1])
                     ELSE probeIn.input[i]

\* C7 witness: a plain zero-dimensional array holding 2, then a
\* zero-dimensional tensor holding 1: both arrive as plain scalars.
C7_Witness ==
    /\ probeOut # Idle
    /\ heap[1] = HostObject("ndarray", 1, <<>>, 2)
    /\ probeIn.input = <<Ref(1), Tensor(<<>>, 1)>>
    /\ probeOut.args = <<Number(2), Number(1)>>

\* C8: the arguments qnode.jacobian (and unflatten) see in the backward
\* closure are the values the evaluator was called with in the forward call.
C8_BackwardSeesForwardValues ==
    RanBackward => last.jacSeen = LastCall.evalSeen

\* C9: the backward closure of call k hands qnode.jacobian the marshalled
\* arguments of call k, whatever other calls were made before or after, and
\* on success returns gradients shaped like call k's arguments.
C9_ClosureUsesOwnArguments ==
    RanBackward
    => /\ last.jacArgs = LastCall.args
       /\ last.outcome = "ok"
          => /\ Len(last.grad) = Len(LastCall.input)
             /\ \A i \in 1..Len(LastCall.input) :
                   last.grad[i].shape = View(LastCall.input[i], heap).shape

\* C9 witness: two calls with arguments of different shapes, both closures
\* invoked, the first call's after the second call and after another backward.
C9_Witness ==
    /\ Len(calls) = 2
    /\ Len(calls[1].input) # Len(calls[2].input)
    /\ calls[2].fwd.closure
    /\ bwdStarted = 2
    /\ RanBackward
    /\ last.call = 1
    /\ last.outcome = "ok"

\* C10: every forward call has made exactly one call to the evaluator and the
\* backward closure none; a forward call whose evaluator raised surfaced that
\* error, with no result and no closure, so no backward (and no Jacobian call)
\* ever belongs to it.
C10_EvaluatorOnceErrorsPropagate ==
    /\ evalCalls = Len(calls)
    /\ \A k \in 1..Len(calls) :
          /\ Len(calls[k].evalSeen) = Len(calls[k].input)
          /\ calls[k].evalOut.raises
             => /\ calls[k].fwd.status = "raised"
                /\ calls[k].fwd.err = calls[k].evalOut.err
                /\ calls[k].fwd.res = None
                /\ ~calls[k].fwd.closure
          /\ ~calls[k].evalOut.raises
             => /\ calls[k].fwd.status = "returned"
                /\ calls[k].fwd.closure
    /\ RanBackward => ~LastCall.evalOut.raises
    /\ (\A k \in 1..Len(calls) : calls[k].evalOut.raises) => jacCalls = 0

\* C10 witness: a forward call that raised, then one that returned and whose
\* closure was invoked.
C10_Witness ==
    /\ Len(calls) = 2
    /\ calls[1].evalOut.raises
    /\ calls[1].fwd.err = "DeviceError"
    /\ ~calls[2].evalOut.raises
    /\ RanBackward
    /\ evalCalls = 2

=============================================================================
